---- MODULE Spec2Model ----
(***************************************************************************)
(* node-nest: a Node.js process that polls the Nest developer API on a     *)
(* timer, follows its 307 redirects through a module-level endpoint cache  *)
(* (dynamicNestConfig) and writes one batch of InfluxDB points per         *)
(* thermostat.                                                             *)
(*                                                                         *)
(* Strings the program takes apart (the Location header, the cached host   *)
(* and port) are sequences of one-character strings, so that replace() and *)
(* split() are computed the way JavaScript computes them.                  *)
(***************************************************************************)
EXTENDS Naturals, Sequences, FiniteSets, TLC

VARIABLES
    proc,               \* "running" | "exited" (process.exit(1)) | "crashed" (uncaught exception)
    dbCheck,            \* "pending" | "ok": the getDatabaseNames() promise of the startup check
    dynamicNestConfig,  \* the endpoint cache: [host, port]
    pc,                 \* per cycle slot: "idle" | "waiting" (a request of the cycle is in flight)
    redirectCount,      \* per cycle slot: the redirectCount argument of the nest() call in flight
    log,                \* the lines printed during the last step
    points,             \* the batches handed to influxdb.writePoints during the last step
    lastResponse,       \* the response the last step handled (NoResponse if it handled none)
    received,           \* the responses counted by kind since the last tick (counted runs only)
    writes              \* the device ids of the writePoints promises not yet settled (sink runs only)

vars == <<proc, dbCheck, dynamicNestConfig, pc, redirectCount, log, points,
          lastResponse, received, writes>>

----------------------------------------------------------------------------
(* Bounds                                                                  *)

\* How many polling cycles may be in flight at once.
MaxCycles == 2
\* How many thermostats a payload holds at most.
MaxDevices == 2
\* How many writePoints promises may be outstanding at once.
MaxWrites == 2

Cycles == 1..MaxCycles

----------------------------------------------------------------------------
(* JavaScript values and string operations                                 *)

Null == [null |-> TRUE, str |-> <<>>]
Str(s) == [null |-> FALSE, str |-> s]

\* null, undefined and '' are falsy; every other string is truthy.
Truthy(v) == ~v.null /\ v.str # <<>>

\* String.prototype.indexOf, 1-based; 0 when pat does not occur.
Occurrences(s, pat) ==
    {i \in 1..Len(s) : i + Len(pat) - 1 <= Len(s) /\ SubSeq(s, i, i + Len(pat) - 1) = pat}
Least(hits) == IF hits = {} THEN 0 ELSE CHOOSE i \in hits : \A j \in hits : i <= j
IndexOf(s, pat) == Least(Occurrences(s, pat))

\* String.prototype.replace with a string pattern: the FIRST occurrence only.
ReplaceAt(s, i, n, rep) ==
    IF i = 0 THEN s ELSE SubSeq(s, 1, i - 1) \o rep \o SubSeq(s, i + n, Len(s))
Replace(s, pat, rep) == ReplaceAt(s, IndexOf(s, pat), Len(pat), rep)

\* String.prototype.split with a one-character separator.
RECURSIVE Split(_, _)
SplitAt(s, sep, i) ==
    IF i = 0 THEN <<s>>
    ELSE <<SubSeq(s, 1, i - 1)>> \o Split(SubSeq(s, i + 1, Len(s)), sep)
Split(s, sep) == SplitAt(s, sep, IndexOf(s, <<sep>>))

----------------------------------------------------------------------------
(* Program constants                                                       *)

DEFAULT_NEST_URL ==
    <<"d","e","v","e","l","o","p","e","r","-","a","p","i",".","n","e","s","t",".","c","o","m">>
\* The number 443, as the digits the request and the log line render it with.
DEFAULT_NEST_PORT == <<"4","4","3">>
\* nest() throws once redirectCount > 10.
MaxRedirects == 10

Scheme == <<"h","t","t","p","s",":","/","/">>

----------------------------------------------------------------------------
(* What the Nest API may answer                                            *)

\* Location header values of a 307.
\* 'https://alt-host:444/some/path'
LocSomePath == Scheme \o <<"a","l","t","-","h","o","s","t",":","4","4","4",
                           "/","s","o","m","e","/","p","a","t","h">>
\* 'https://n1:9553/' (the shape the Nest API sends)
LocRoot == Scheme \o <<"n","1",":","9","5","5","3","/">>
\* 'https://n1:9553'
LocNoPath == Scheme \o <<"n","1",":","9","5","5","3">>
\* 'https://n2:' (empty port)
LocEmptyPort == Scheme \o <<"n","2",":">>
\* 'https://n2' (no ':<port>' part)
LocNoPort == Scheme \o <<"n","2">>

\* Null stands for a response without a Location header.
Locations == {Str(LocSomePath), Str(LocRoot), Str(LocNoPath),
              Str(LocEmptyPort), Str(LocNoPort), Null}

StatusCodes == {200, 307, 404, 429, 500}

\* structures[structure_id].wheres[where_id].name of the payloads.
Structures == [sid \in {"s1"} |-> [wheres |-> [wid \in {"w1"} |-> [name |-> "Den"]]]]

Thermostat(id, sid, wid, mode, state, fan, leaf, online) ==
    [device_id |-> id, name |-> id, structure_id |-> sid, where_id |-> wid,
     hvac_mode |-> mode, hvac_state |-> state,
     has_fan |-> fan, has_leaf |-> leaf, is_online |-> online,
     ambient_temperature_f |-> 70, target_temperature_f |-> 68,
     target_temperature_high_f |-> 75, target_temperature_low_f |-> 65,
     humidity |-> 40]

HvacModes == {"off", "heat", "cool", "heat-cool", "eco"}
HvacStates == {"off", "heating", "cooling"}

\* The thermostats of the polling runs: one whose ids resolve, one whose
\* structure_id is not in structures, one whose where_id is not in wheres.
DevGood == Thermostat("t1", "s1", "w1", "heat", "heating", TRUE, FALSE, TRUE)
DevNoStructure == Thermostat("t2", "sX", "w1", "cool", "cooling", FALSE, TRUE, TRUE)
DevNoWhere == Thermostat("t3", "s1", "wX", "off", "off", FALSE, FALSE, FALSE)
DevOther == Thermostat("t4", "s1", "w1", "eco", "off", TRUE, TRUE, TRUE)
PollDevices == {DevGood, DevNoStructure, DevNoWhere}

\* Every combination of the enumerated fields, for the extraction runs.
AllDevices ==
    {Thermostat("t1", "s1", "w1", m, s, f, l, o) :
        m \in HvacModes, s \in HvacStates, f \in BOOLEAN, l \in BOOLEAN, o \in BOOLEAN}

\* The sequences of at most n different elements of S: the thermostats are the
\* values of a mapping keyed by device id, so none occurs twice.
SeqsUpTo(S, n) ==
    UNION {{t \in [1..k -> S] : \A i, j \in 1..k : t[i] = t[j] => i = j} : k \in 0..n}

\* A parsed body: devices / devices.thermostats present or not, and the
\* thermostats in Object.keys order.
Payload(hasDevices, hasThermostats, thermostats) ==
    [hasDevices |-> hasDevices, hasThermostats |-> hasThermostats,
     thermostats |-> thermostats, structures |-> Structures]

PayloadsOf(devs) ==
    {Payload(FALSE, FALSE, <<>>), Payload(TRUE, FALSE, <<>>)}
    \cup {Payload(TRUE, TRUE, t) : t \in SeqsUpTo(devs, MaxDevices)}

\* A response body: "empty" (no bytes), "garbage" (bytes JSON.parse rejects),
\* "falsy" (valid JSON for null, 0, false or ""), "object" (a payload).
Body(kind, value) == [kind |-> kind, value |-> value]
NoPayload == Payload(FALSE, FALSE, <<>>)
BodiesOf(devs) ==
    {Body("empty", NoPayload), Body("garbage", NoPayload), Body("falsy", NoPayload)}
    \cup {Body("object", p) : p \in PayloadsOf(devs)}

\* A response: status, Location header, body, and whether the whole body came
\* with the headers (so that 'end' is emitted before any promise continuation).
\* Only a 307 carries a Location header. What a 307, 404 or 429 does with its
\* body does not depend on the JSON in it, so one JSON body stands for all;
\* the JSON of a 500 is an error object, which has no devices.
StatusBodies(statusCode, devs) ==
    IF statusCode \in {307, 404, 429}
    THEN {Body("empty", NoPayload), Body("garbage", NoPayload),
          Body("object", Payload(TRUE, TRUE, <<>>))}
    ELSE IF statusCode = 500
    THEN {Body("empty", NoPayload), Body("garbage", NoPayload), Body("falsy", NoPayload),
          Body("object", NoPayload)}
    ELSE BodiesOf(devs)

\* The order of 'end' and the continuation shows only when 'end' throws.
EndOrders(statusCode, body) ==
    IF statusCode \in {307, 404, 429} /\ body.kind = "garbage" THEN BOOLEAN ELSE {TRUE}

LocationsOf(statusCode) == IF statusCode = 307 THEN Locations ELSE {Null}

ResponsesWith(sc, loc, b) ==
    {[statusCode |-> sc, location |-> loc, body |-> b, endFirst |-> e] :
        e \in EndOrders(sc, b)}
ResponsesOf(statusCodes, locations, devs) ==
    UNION {UNION {UNION {ResponsesWith(sc, loc, b) : b \in StatusBodies(sc, devs)}
                  : loc \in LocationsOf(sc) \cap (locations \cup {Null})}
           : sc \in statusCodes}

\* The responses of the runs with one cycle at a time: every status, every
\* Location, every payload of at most MaxDevices thermostats.
CycleResponses == ResponsesOf(StatusCodes, Locations, PollDevices)

\* The responses of the runs with overlapping cycles: the statuses the code
\* tells apart, one Location of each shape, payloads of at most one thermostat.
OverlapResponses ==
    ResponsesOf({200, 307, 404, 429}, Locations \ {Str(LocNoPath)}, {DevGood})

\* The responses of the extraction runs: a 200 with one thermostat.
ExtractResponses ==
    {[statusCode |-> 200, location |-> Null,
      body |-> Body("object", Payload(TRUE, TRUE, <<d>>)), endFirst |-> TRUE] :
        d \in AllDevices}

NoResponse ==
    [statusCode |-> 0, location |-> Null, body |-> Body("empty", NoPayload),
     endFirst |-> TRUE]

----------------------------------------------------------------------------
(* Log lines and sink batches                                              *)

Line(level, msg) == [level |-> level, msg |-> msg, host |-> Null, port |-> Null]
\* winston.info(`[GET] https://${url}:${port}`): the request that is issued.
Get(host, port) == [level |-> "info", msg |-> "GET", host |-> host, port |-> port]

Bit(b) == IF b THEN 1 ELSE 0

\* The 'device.state.reading' point of one thermostat.
StatePoint_Underscore(device, where) ==
    [measurement |-> "device.state.reading",
     tags |-> [device_id |-> device.device_id, room |-> where.name, device_type |-> "nest"],
     fields |-> [fan |-> Bit(device.has_fan),
                 leaf |-> Bit(device.has_leaf),
                 mode |-> device.hvac_mode,
                 state |-> device.hvac_state,
                 online |-> Bit(device.is_online),
                 mode_off |-> Bit(device.hvac_mode = "off"),
                 mode_heat |-> Bit(device.hvac_mode = "heat"),
                 mode_cool |-> Bit(device.hvac_mode = "cool"),
                 mode_heat_cool |-> Bit(device.hvac_mode = "heat_cool"),
                 mode_eco |-> Bit(device.hvac_mode = "eco"),
                 state_off |-> Bit(device.hvac_state = "off"),
                 state_cooling |-> Bit(device.hvac_state = "cooling"),
                 state_heating |-> Bit(device.hvac_state = "heating")]]
StatePoint(device, where) ==
    [measurement |-> "device.state.reading",
     tags |-> [device_id |-> device.device_id, room |-> where.name, device_type |-> "nest"],
     fields |-> [fan |-> Bit(device.has_fan),
                 leaf |-> Bit(device.has_leaf),
                 mode |-> device.hvac_mode,
                 state |-> device.hvac_state,
                 online |-> Bit(device.is_online),
                 mode_off |-> Bit(device.hvac_mode = "off"),
                 mode_heat |-> Bit(device.hvac_mode = "heat"),
                 mode_cool |-> Bit(device.hvac_mode = "cool"),
                 mode_heat_cool |-> Bit(device.hvac_mode = "heat-cool"),
                 mode_eco |-> Bit(device.hvac_mode = "eco"),
                 state_off |-> Bit(device.hvac_state = "off"),
                 state_cooling |-> Bit(device.hvac_state = "cooling"),
                 state_heating |-> Bit(device.hvac_state = "heating")]]

TemperaturePoint(device, where) ==
    [measurement |-> "sensor.temperature.reading",
     tags |-> [device_id |-> device.device_id, room |-> where.name],
     fields |-> [ambient |-> device.ambient_temperature_f,
                 target_high |-> device.target_temperature_high_f,
                 target_low |-> device.target_temperature_low_f,
                 target |-> device.target_temperature_f]]

HumidityPoint(device, where) ==
    [measurement |-> "sensor.humidity.reading",
     tags |-> [device_id |-> device.device_id, room |-> where.name],
     fields |-> [humidity |-> device.humidity]]

\* The argument of one influxdb.writePoints call.
Batch(device, where) ==
    <<TemperaturePoint(device, where), HumidityPoint(device, where), StatePoint(device, where)>>

----------------------------------------------------------------------------
(* The polling callback: what is done with the data nest() resolved to     *)

\* The for loop over deviceIds from index i on. A structure_id that is not in
\* data.structures makes structure undefined and structure.wheres throws; a
\* where_id that is not in wheres makes where undefined and where.name throws.
\* The TypeError leaves the loop and reaches the .catch of the callback.
RECURSIVE WriteLoop(_, _, _, _)
WriteDevice(data, i, lines, batches, device) ==
    IF device.structure_id \notin DOMAIN data.structures
    THEN [log |-> lines \o <<Line("error", "TypeError")>>, points |-> batches]
    ELSE IF device.where_id \notin DOMAIN data.structures[device.structure_id].wheres
    THEN [log |-> lines \o <<Line("error", "TypeError")>>, points |-> batches]
    ELSE WriteLoop(data, i + 1, lines \o <<Line("info", "Writing data")>>,
                   Append(batches,
                          Batch(device,
                                data.structures[device.structure_id].wheres[device.where_id])))
WriteLoop(data, i, lines, batches) ==
    IF i > Len(data.thermostats)
    THEN [log |-> lines, points |-> batches]
    ELSE WriteDevice(data, i, lines, batches, data.thermostats[i])

\* nest().then((data) => { ... }).catch(...)
OnData_NoShapeCheck(data) ==
    IF Len(data.thermostats) = 0
    THEN [log |-> <<Line("info", "No thermostats found")>>, points |-> <<>>]
    ELSE WriteLoop(data, 1, <<Line("info", "Found thermostats")>>, <<>>)
OnData(data) ==
    IF data.hasDevices /\ data.hasThermostats
    THEN IF Len(data.thermostats) = 0
         THEN [log |-> <<Line("info", "No thermostats found")>>, points |-> <<>>]
         ELSE WriteLoop(data, 1, <<Line("info", "Found thermostats")>>, <<>>)
    ELSE [log |-> <<Line("error", "Unexpected response")>>, points |-> <<>>]

----------------------------------------------------------------------------
(* nest(): one request attempt and the handling of its response            *)

\* url = dynamicNestConfig.host || DEFAULT_NEST_URL
ResolveHost_Default(cfg) == Str(DEFAULT_NEST_URL)
ResolveHost(cfg) == IF Truthy(cfg.host) THEN cfg.host ELSE Str(DEFAULT_NEST_URL)
\* port = dynamicNestConfig.port || DEFAULT_NEST_PORT
ResolvePort(cfg) == IF Truthy(cfg.port) THEN cfg.port ELSE Str(DEFAULT_NEST_PORT)

\* res.headers.location.replace('https://', '').split(':')
ParseLocation(location) == Split(Replace(location, Scheme, <<>>), ":")
\* location[1].replace('/', '')
ParsePort(s) == Replace(s, <<"/">>, <<>>)

\* if (redirectCount > 10) throw
TooManyRedirects_OneMore(count) == count > MaxRedirects + 1
TooManyRedirects(count) == count > MaxRedirects

\* nest(null, null, count) up to req.end(): either the throw, which the
\* polling callback's .catch logs, or the request to the resolved endpoint.
\* lines are the lines the step has printed before the call.
Attempt(cfg, count, lines) ==
    IF TooManyRedirects(count)
    THEN [pc |-> "idle", count |-> 0,
          log |-> lines \o <<Line("error", "Redirected too many times")>>]
    ELSE [pc |-> "waiting", count |-> count,
          log |-> lines \o <<Get(ResolveHost(cfg), ResolvePort(cfg))>>]

\* The 307 branch. Without a Location header location.replace throws before
\* anything is written; with no ':' in it location[1] is undefined and its
\* replace throws after host has been written.
RedirectTo(cfg, parts) ==
    IF Len(parts) < 2
    THEN [cfg |-> [cfg EXCEPT !.host = Str(parts[1])], threw |-> TRUE]
    ELSE [cfg |-> [host |-> Str(parts[1]), port |-> Str(ParsePort(parts[2]))],
          threw |-> FALSE]
Redirect(cfg, location) ==
    IF location.null
    THEN [cfg |-> cfg, threw |-> TRUE]
    ELSE RedirectTo(cfg, ParseLocation(location.str))

\* The 404 branch.
NotFound_KeepsPort(cfg) == [cfg EXCEPT !.host = Null]
NotFound(cfg) == [host |-> Null, port |-> Null]

\* The 429 branch.
RateLimited(cfg) == cfg

\* The three status branches of the response callback: the cache they leave,
\* whether they threw, whether they called resolve(null), what they printed.
Redirected(r) ==
    [cfg |-> r.cfg, threw |-> r.threw, resolved |-> ~r.threw,
     log |-> IF r.threw THEN <<>>
             ELSE <<[level |-> "info", msg |-> "Redirect detected",
                     host |-> r.cfg.host, port |-> r.cfg.port]>>]
StatusBranches(cfg, statusCode, location) ==
    IF statusCode = 307
    THEN Redirected(Redirect(cfg, location))
    ELSE IF statusCode = 404
    THEN [cfg |-> NotFound(cfg), threw |-> FALSE, resolved |-> TRUE,
          log |-> <<Line("info", "URL Not Found (404) detected")>>]
    ELSE IF statusCode = 429
    THEN [cfg |-> RateLimited(cfg), threw |-> FALSE, resolved |-> TRUE,
          log |-> <<Line("info", "Too Many Requests (429) detected")>>]
    ELSE [cfg |-> cfg, threw |-> FALSE, resolved |-> FALSE, log |-> <<>>]

\* if (!data): the promise's value is null after resolve(null), '' for an
\* empty body, and the parsed body otherwise.
Falsy_EmptyIsData(resolved, body) == resolved \/ body.kind = "falsy"
Falsy(resolved, body) == resolved \/ body.kind \in {"empty", "falsy"}

\* An exception thrown inside the response callback or the 'end' listener is
\* outside every promise: nothing catches it, node prints it and the process
\* dies.
Uncaught(error) == Line("uncaught", error)
Crash(cfg, count, lines, error) ==
    [proc |-> "crashed", cfg |-> cfg, pc |-> "waiting", count |-> count,
     log |-> lines \o <<Uncaught(error)>>, points |-> <<>>]

\* One response, from the response callback to the end of the promise chain it
\* settles. JSON.parse runs in the 'end' listener for every status. After
\* resolve(null) the 'end' event comes before the .then continuation when the
\* body arrived with the headers (endFirst), and after it otherwise.
Retried(cfg, retry, parseThrows) ==
    [proc |-> IF parseThrows THEN "crashed" ELSE "running",
     cfg |-> cfg, pc |-> retry.pc, count |-> retry.count,
     log |-> IF parseThrows THEN retry.log \o <<Uncaught("SyntaxError")>> ELSE retry.log,
     points |-> <<>>]
Delivered(cfg, d) ==
    [proc |-> "running", cfg |-> cfg, pc |-> "idle", count |-> 0,
     log |-> d.log, points |-> d.points]
Settle(cb, count, body, endFirst, parseThrows) ==
    IF cb.threw
    THEN Crash(cb.cfg, count, cb.log, "TypeError")
    ELSE IF parseThrows /\ (endFirst \/ ~cb.resolved)
    THEN Crash(cb.cfg, count, cb.log, "SyntaxError")
    ELSE IF Falsy(cb.resolved, body)
    THEN Retried(cb.cfg, Attempt(cb.cfg, count + 1, cb.log), parseThrows)
    ELSE Delivered(cb.cfg, OnData(body.value))
Respond_FreeRateLimit(cfg, count, statusCode, location, body, endFirst) ==
    Settle(StatusBranches(cfg, statusCode, location),
           IF statusCode = 429 /\ count > 0 THEN count - 1 ELSE count,
           body, endFirst, body.kind = "garbage")
Respond(cfg, count, statusCode, location, body, endFirst) ==
    Settle(StatusBranches(cfg, statusCode, location), count, body, endFirst,
           body.kind = "garbage")

----------------------------------------------------------------------------
(* Actions                                                                 *)

\* The state a step of cycle c leaves: r gives the process, the cache, the
\* cycle's position and counter, and what the step printed and wrote.
Becomes_SharedCounter(c, r) ==
    /\ proc' = r.proc
    /\ dynamicNestConfig' = r.cfg
    /\ pc' = [pc EXCEPT ![c] = r.pc]
    /\ redirectCount' = [d \in Cycles |-> IF pc'[d] = "idle" THEN 0 ELSE r.count]
    /\ log' = r.log
    /\ points' = r.points
Becomes(c, r) ==
    /\ proc' = r.proc
    /\ dynamicNestConfig' = r.cfg
    /\ pc' = [pc EXCEPT ![c] = r.pc]
    /\ redirectCount' = [redirectCount EXCEPT ![c] = r.count]
    /\ log' = r.log
    /\ points' = r.points

\* The module body up to setInterval: a missing NEST_TOKEN or INFLUXDB_HOST
\* exits at once; the database check is still pending.
Init ==
    /\ \E token \in BOOLEAN, influxHost \in BOOLEAN :
          proc = IF token /\ influxHost THEN "running" ELSE "exited"
    /\ dbCheck = "pending"
    /\ dynamicNestConfig = [host |-> Null, port |-> Null]
    /\ pc = [c \in Cycles |-> "idle"]
    /\ redirectCount = [c \in Cycles |-> 0]
    /\ log = <<>>
    /\ points = <<>>
    /\ lastResponse = NoResponse
    /\ received = [redirects |-> 0, retries |-> 0]
    /\ writes = <<>>

\* influxdb.getDatabaseNames() settles.
DatabaseNames(answer) ==
    /\ proc = "running"
    /\ dbCheck = "pending"
    /\ IF answer = "found"
       THEN /\ dbCheck' = "ok"
            /\ proc' = proc
            /\ log' = <<Line("info", "Found environment database")>>
       ELSE /\ dbCheck' = dbCheck
            /\ proc' = "exited"
            /\ log' = <<Line("error", IF answer = "missing"
                                      THEN "Missing InfluxDB database"
                                      ELSE "Could not connect to InfluxDB")>>
    /\ points' = <<>>
    /\ lastResponse' = NoResponse
    /\ UNCHANGED <<dynamicNestConfig, pc, redirectCount>>

\* The setInterval callback fires and calls nest(): cycle c starts.
Tick(c) ==
    /\ proc = "running"
    /\ pc[c] = "idle"
    /\ \A d \in Cycles : d < c => pc[d] # "idle"
    /\ Becomes(c, [proc |-> proc, cfg |-> dynamicNestConfig, points |-> <<>>]
                   @@ Attempt(dynamicNestConfig, 0, <<>>))
    /\ lastResponse' = NoResponse
    /\ UNCHANGED dbCheck

\* The response to the request of cycle c arrives.
Response(c, responses) ==
    /\ proc = "running"
    /\ pc[c] = "waiting"
    /\ \E res \in responses :
          /\ Becomes(c, Respond(dynamicNestConfig, redirectCount[c], res.statusCode,
                                res.location, res.body, res.endFirst))
          /\ lastResponse' = res
    /\ UNCHANGED dbCheck

\* req.on('error'): reject(e.message), which skips the .then of nest() and
\* is logged by the polling callback's .catch.
TransportError_Retries(c) ==
    /\ proc = "running"
    /\ pc[c] = "waiting"
    /\ redirectCount[c] < MaxRedirects
    /\ pc' = pc
    /\ redirectCount' = [redirectCount EXCEPT ![c] = @ + 1]
    /\ log' = <<Line("error", "connect ECONNREFUSED"),
                Get(ResolveHost(dynamicNestConfig), ResolvePort(dynamicNestConfig))>>
    /\ points' = <<>>
    /\ lastResponse' = NoResponse
    /\ UNCHANGED <<proc, dbCheck, dynamicNestConfig>>
TransportError(c) ==
    /\ proc = "running"
    /\ pc[c] = "waiting"
    /\ pc' = [pc EXCEPT ![c] = "idle"]
    /\ redirectCount' = [redirectCount EXCEPT ![c] = 0]
    /\ log' = <<Line("error", "connect ECONNREFUSED")>>
    /\ points' = <<>>
    /\ lastResponse' = NoResponse
    /\ UNCHANGED <<proc, dbCheck, dynamicNestConfig>>

Uncounted == UNCHANGED received
Unwatched == UNCHANGED writes

\* The runs with overlapping cycles: up to MaxCycles cycles in flight, while
\* the answer of the database check is still outstanding.
Next ==
    \/ \E c \in Cycles : Tick(c) /\ Uncounted /\ Unwatched
    \/ \E c \in Cycles : Response(c, OverlapResponses) /\ Uncounted /\ Unwatched
    \/ \E c \in Cycles : TransportError(c) /\ Uncounted /\ Unwatched

Spec == Init /\ [][Next]_vars

\* The counted runs: one cycle at a time, and the responses it has received
\* since its tick counted by kind: the 307s, and the responses that make the
\* promise resolve to a falsy value (307, 404, 429, an empty or falsy body).
IsRetrySignal(res) ==
    res.statusCode \in {307, 404, 429} \/ res.body.kind \in {"empty", "falsy"}
Count(res) ==
    [redirects |-> received.redirects + Bit(res.statusCode = 307),
     retries |-> received.retries + Bit(IsRetrySignal(res))]
Counted ==
    received' = IF lastResponse' # NoResponse THEN Count(lastResponse')
                ELSE IF pc[1] = "idle" /\ pc'[1] = "waiting"
                THEN [redirects |-> 0, retries |-> 0]
                ELSE received

NextCycle ==
    \/ \E answer \in {"found", "missing", "unreachable"} :
          DatabaseNames(answer) /\ Counted /\ Unwatched
    \/ Tick(1) /\ Counted /\ Unwatched
    \/ Response(1, CycleResponses) /\ Counted /\ Unwatched
    \/ TransportError(1) /\ Counted /\ Unwatched

SpecCycle == Init /\ [][NextCycle]_vars

\* The extraction runs: one cycle at a time, every answer a 200 that carries
\* one thermostat, over all values of its enumerated fields.
NextExtract ==
    \/ Tick(1) /\ Uncounted /\ Unwatched
    \/ Response(1, ExtractResponses) /\ Uncounted /\ Unwatched

SpecExtract == Init /\ [][NextExtract]_vars

\* The promise of an outstanding writePoints call settles. A rejection runs
\* the .catch attached to the call, which prints the error.
Remove(q, i) == SubSeq(q, 1, i - 1) \o SubSeq(q, i + 1, Len(q))
WriteSettled_Unhandled(i, ok) ==
    /\ proc = "running"
    /\ i \in 1..Len(writes)
    /\ writes' = Remove(writes, i)
    /\ proc' = IF ok THEN proc ELSE "crashed"
    /\ log' = IF ok THEN <<>> ELSE <<Uncaught("Error saving data")>>
    /\ points' = <<>>
    /\ lastResponse' = NoResponse
    /\ UNCHANGED <<dbCheck, dynamicNestConfig, pc, redirectCount>>
WriteSettled(i, ok) ==
    /\ proc = "running"
    /\ i \in 1..Len(writes)
    /\ writes' = Remove(writes, i)
    /\ log' = IF ok THEN <<>> ELSE <<Line("error", "Error saving data")>>
    /\ points' = <<>>
    /\ lastResponse' = NoResponse
    /\ UNCHANGED <<proc, dbCheck, dynamicNestConfig, pc, redirectCount>>

\* The sink runs: one cycle at a time, every answer a 200, and the promises of
\* the writePoints calls followed until they settle.
SinkResponses == ResponsesOf({200}, {Null}, {DevGood, DevOther, DevNoWhere})
Watched ==
    /\ writes' = writes \o [i \in 1..Len(points') |-> points'[i][1].tags.device_id]
    /\ Len(writes') <= MaxWrites

NextSink ==
    \/ Tick(1) /\ Uncounted /\ Unwatched
    \/ Response(1, SinkResponses) /\ Uncounted /\ Watched
    \/ \E i \in 1..MaxWrites, ok \in BOOLEAN : WriteSettled(i, ok) /\ Uncounted

SpecSink == Init /\ [][NextSink]_vars

----------------------------------------------------------------------------
(* Properties                                                              *)

HasLine(lines, msg) == \E i \in 1..Len(lines) : lines[i].msg = msg
TooManyLogged(lines) == HasLine(lines, "Redirected too many times")
GetsOf(lines) == {i \in 1..Len(lines) : lines[i].msg = "GET"}
Unset == [host |-> Null, port |-> Null]

\* The last step handled a response that carried data: a status other than
\* 307, 404 and 429 with a body that parses to a truthy value.
DataArrived ==
    /\ lastResponse # NoResponse
    /\ ~IsRetrySignal(lastResponse)
    /\ lastResponse.body.kind = "object"

C2_NotFoundResetsEndpoint ==
    lastResponse.statusCode = 404 =>
        /\ dynamicNestConfig = Unset
        /\ \A i \in GetsOf(log) :
              /\ log[i].host = Str(DEFAULT_NEST_URL)
              /\ log[i].port = Str(DEFAULT_NEST_PORT)
        /\ proc = "running" => (GetsOf(log) # {} \/ TooManyLogged(log))

\* A 404 has been handled and retried while every cycle slot is in flight.
C2_Witness ==
    /\ lastResponse.statusCode = 404
    /\ GetsOf(log) # {}
    /\ \A c \in Cycles : pc[c] = "waiting" /\ redirectCount[c] > 0

\* The cycle that took the step: the only one whose position or counter may
\* have changed.
OnlyCycle(c) ==
    \A d \in Cycles \ {c} : pc'[d] = pc[d] /\ redirectCount'[d] = redirectCount[d]

\* C3: a step that handles a 429 leaves the cache as it was, and the cycle
\* that received it calls nest() again with its counter one higher: it has a
\* request in flight with the counter incremented, or the counter had reached
\* 10 and the call threw 'Redirected too many times'.
C3_RateLimitedRetries ==
    [][lastResponse'.statusCode = 429 =>
          /\ dynamicNestConfig' = dynamicNestConfig
          /\ \E c \in Cycles :
                /\ pc[c] = "waiting"
                /\ OnlyCycle(c)
                /\ IF redirectCount[c] < MaxRedirects
                   THEN /\ pc'[c] = "waiting"
                        /\ redirectCount'[c] = redirectCount[c] + 1
                        /\ GetsOf(log') # {}
                   ELSE /\ pc'[c] = "idle"
                        /\ TooManyLogged(log')]_vars

\* A 429 whose body is not JSON has been handled while the cache holds a
\* redirect target: the cache is as it was and no retry has been issued.
C3_Witness ==
    /\ lastResponse.statusCode = 429
    /\ lastResponse.body.kind = "garbage"
    /\ Truthy(dynamicNestConfig.host)
    /\ Truthy(dynamicNestConfig.port)
    /\ GetsOf(log) = {}

\* C4: after a 307 whose Location has a host, a port and any path, the cached
\* port consists of digits only; for 'https://alt-host:444/some/path' the cache
\* is host 'alt-host', port 444.
C4_LocationStripped ==
    LET Digits == {"0", "1", "2", "3", "4", "5", "6", "7", "8", "9"}
        AltHost == <<"a","l","t","-","h","o","s","t">>
    IN  (lastResponse.statusCode = 307 /\ ~lastResponse.location.null) =>
            /\ \A i \in 1..Len(dynamicNestConfig.port.str) :
                  dynamicNestConfig.port.str[i] \in Digits
            /\ lastResponse.location = Str(LocSomePath) =>
                  dynamicNestConfig = [host |-> Str(AltHost), port |-> Str(<<"4","4","4">>)]

\* C5: a step in which a request fails at the transport level leaves the cache
\* as it was, issues no request, prints the error through the callback's
\* .catch, ends that cycle only, and leaves the process running with a free
\* slot for the next tick.
C5_TransportErrorEndsCycle ==
    [][HasLine(log', "connect ECONNREFUSED") =>
          /\ dynamicNestConfig' = dynamicNestConfig
          /\ GetsOf(log') = {}
          /\ \A i \in 1..Len(log') : log'[i].level = "error"
          /\ points' = <<>>
          /\ proc' = "running"
          /\ \E c \in Cycles :
                pc[c] = "waiting" /\ pc'[c] = "idle" /\ redirectCount'[c] = 0 /\ OnlyCycle(c)]_vars

\* A transport error has been logged while the cache holds a redirect target
\* and another cycle is still in flight.
C5_Witness ==
    /\ HasLine(log, "connect ECONNREFUSED")
    /\ Truthy(dynamicNestConfig.host)
    /\ \E c \in Cycles : pc[c] = "waiting"
    /\ ENABLED (\E c \in Cycles : Tick(c))

\* C6: a response whose body is not valid JSON, whatever its status, does not
\* end the process: the error is printed by the callback's .catch and the
\* cycle is over.
C6_DecodeErrorCaught ==
    lastResponse.body.kind = "garbage" =>
        /\ proc = "running"
        /\ \E i \in 1..Len(log) : log[i].level = "error"

\* C7: the cache changes only in a step that handles a 307 or a 404, and a
\* tick that finds a host and a port in it sends the cycle's first request to
\* exactly that pair (to the defaults when it finds neither).
C7_CachePersists ==
    [][/\ dynamicNestConfig' # dynamicNestConfig => lastResponse'.statusCode \in {307, 404}
       /\ \A c \in Cycles :
             (pc[c] = "idle" /\ pc'[c] = "waiting") =>
                /\ dynamicNestConfig' = dynamicNestConfig
                /\ redirectCount'[c] = 0
                /\ (Truthy(dynamicNestConfig.host) /\ Truthy(dynamicNestConfig.port)) =>
                      log' = <<Get(dynamicNestConfig.host, dynamicNestConfig.port)>>
                /\ dynamicNestConfig = Unset =>
                      log' = <<Get(Str(DEFAULT_NEST_URL), Str(DEFAULT_NEST_PORT))>>]_vars

\* A tick has sent the first request of a cycle to the remembered n1:9553
\* while an older cycle is still in flight.
C7_Witness ==
    /\ lastResponse = NoResponse
    /\ log = <<Get(Str(<<"n","1">>), Str(<<"9","5","5","3">>))>>
    /\ pc[1] = "waiting" /\ redirectCount[1] > 0
    /\ pc[2] = "waiting" /\ redirectCount[2] = 0

\* C8: while the process runs, the cache holds a host exactly when it holds a
\* port (a field holds a value when the code's own test, x || default, finds
\* one).
C8_BothOrNeither ==
    proc = "running" =>
        (Truthy(dynamicNestConfig.host) <=> Truthy(dynamicNestConfig.port))

\* C9: data whose thermostat mapping is empty causes no write; data without
\* devices.thermostats prints the 'Unexpected response' error, causes no
\* write, and leaves the process running with the next tick enabled.
C9_NothingToWrite ==
    (proc = "running" /\ DataArrived /\ Len(lastResponse.body.value.thermostats) = 0) =>
        /\ points = <<>>
        /\ pc[1] = "idle"
        /\ ENABLED Tick(1)
        /\ IF lastResponse.body.value.hasDevices /\ lastResponse.body.value.hasThermostats
           THEN \A i \in 1..Len(log) : log[i].level # "error"
           ELSE log = <<Line("error", "Unexpected response")>>

\* Data without devices has been answered with the 'Unexpected response' error.
C9_Witness ==
    /\ DataArrived
    /\ ~lastResponse.body.value.hasDevices
    /\ HasLine(log, "Unexpected response")
    /\ points = <<>>

\* The fields of the 'device.state.reading' point written for the thermostat
\* of the last response, and that thermostat.
StateFields == points[1][3].fields
Device == lastResponse.body.value.thermostats[1]

\* C10: in the device-state point of a thermostat exactly one mode_* field
\* is 1, the one of its hvac_mode, exactly one state_* field is 1, the one of
\* its hvac_state, and fan, leaf and online are 1 exactly when has_fan,
\* has_leaf and is_online are true.
C10_OneHot ==
    (DataArrived /\ Len(lastResponse.body.value.thermostats) = 1) =>
        /\ Len(points) = 1
        /\ points[1][3].measurement = "device.state.reading"
        /\ {StateFields.mode_off, StateFields.mode_heat, StateFields.mode_cool,
            StateFields.mode_heat_cool, StateFields.mode_eco} \subseteq {0, 1}
        /\ StateFields.mode_off + StateFields.mode_heat + StateFields.mode_cool
              + StateFields.mode_heat_cool + StateFields.mode_eco = 1
        /\ (Device.hvac_mode = "off") = (StateFields.mode_off = 1)
        /\ (Device.hvac_mode = "heat") = (StateFields.mode_heat = 1)
        /\ (Device.hvac_mode = "cool") = (StateFields.mode_cool = 1)
        /\ (Device.hvac_mode = "heat-cool") = (StateFields.mode_heat_cool = 1)
        /\ (Device.hvac_mode = "eco") = (StateFields.mode_eco = 1)
        /\ {StateFields.state_off, StateFields.state_heating, StateFields.state_cooling}
              \subseteq {0, 1}
        /\ StateFields.state_off + StateFields.state_heating + StateFields.state_cooling = 1
        /\ (Device.hvac_state = "off") = (StateFields.state_off = 1)
        /\ (Device.hvac_state = "heating") = (StateFields.state_heating = 1)
        /\ (Device.hvac_state = "cooling") = (StateFields.state_cooling = 1)
        /\ {StateFields.fan, StateFields.leaf, StateFields.online} \subseteq {0, 1}
        /\ Device.has_fan = (StateFields.fan = 1)
        /\ Device.has_leaf = (StateFields.leaf = 1)
        /\ Device.is_online = (StateFields.online = 1)

\* The point of a thermostat in mode heat-cool, cooling, with a fan, offline.
C10_Witness ==
    /\ DataArrived
    /\ Len(points) = 1
    /\ Device.hvac_mode = "heat-cool" /\ Device.hvac_state = "cooling"
    /\ Device.has_fan /\ ~Device.is_online
    /\ StateFields.mode_heat_cool = 1 /\ StateFields.state_cooling = 1
    /\ StateFields.fan = 1 /\ StateFields.online = 0

\* Whether the structure_id and where_id of a thermostat resolve in the
\* payload, and the device ids of the batches the last step wrote.
Resolvable(data, device) ==
    /\ device.structure_id \in DOMAIN data.structures
    /\ device.where_id \in DOMAIN data.structures[device.structure_id].wheres
ResolvableIds(data) ==
    {data.thermostats[i].device_id : i \in {j \in 1..Len(data.thermostats) :
                                              Resolvable(data, data.thermostats[j])}}
WrittenIds == {points[i][1].tags.device_id : i \in 1..Len(points)}

\* C11: when the data of a cycle holds thermostats, a batch is written for
\* exactly those whose structure_id and where_id resolve, wherever the others
\* stand in the iteration order.
C11_OnlyUnresolvableSkipped ==
    (DataArrived /\ lastResponse.body.value.hasDevices
                 /\ lastResponse.body.value.hasThermostats) =>
        WrittenIds = ResolvableIds(lastResponse.body.value)

\* Data with an unresolvable thermostat followed by a resolvable one has been
\* handled: the TypeError was printed and nothing was written.
C11_Witness ==
    /\ DataArrived
    /\ Len(lastResponse.body.value.thermostats) = 2
    /\ ~Resolvable(lastResponse.body.value, lastResponse.body.value.thermostats[1])
    /\ Resolvable(lastResponse.body.value, lastResponse.body.value.thermostats[2])
    /\ HasLine(log, "TypeError")
    /\ points = <<>>
    /\ proc = "running"

\* C12: data with N thermostats that all resolve makes N writePoints calls in
\* the step that handles it, whatever older writes are outstanding or have
\* failed; a write that settles, failed or not, makes no new writePoints call,
\* prints at most its error, and leaves the process, the cycles and the cache
\* as they were.
C12_WriteFailureOnlyLogged ==
    [][/\ (DataArrived' /\ lastResponse'.body.value.hasDevices
                        /\ lastResponse'.body.value.hasThermostats
                        /\ \A i \in 1..Len(lastResponse'.body.value.thermostats) :
                              Resolvable(lastResponse'.body.value,
                                         lastResponse'.body.value.thermostats[i])) =>
             /\ Len(points') = Len(lastResponse'.body.value.thermostats)
             /\ \A i \in 1..Len(points') :
                   points'[i][1].tags.device_id
                      = lastResponse'.body.value.thermostats[i].device_id
             /\ Len(writes') = Len(writes) + Len(points')
       /\ Len(writes') < Len(writes) =>
             /\ Len(writes') = Len(writes) - 1
             /\ points' = <<>>
             /\ log' \in {<<>>, <<Line("error", "Error saving data")>>}
             /\ proc' = "running"
             /\ pc' = pc
             /\ redirectCount' = redirectCount
             /\ dynamicNestConfig' = dynamicNestConfig]_vars

\* The first of the two writes of a cycle has failed and was logged while
\* the second is still outstanding, and the next tick can fire.
C12_Witness ==
    /\ log = <<Line("error", "Error saving data")>>
    /\ Len(writes) = 1
    /\ points = <<>>
    /\ proc = "running"
    /\ ENABLED Tick(1)

\* The Location header of the last response names a host and a port part.
WellFormedRedirect ==
    /\ lastResponse.statusCode = 307
    /\ ~lastResponse.location.null
    /\ Len(ParseLocation(lastResponse.location.str)) >= 2

\* C13: after a 307 with a usable Location header, whatever its body, the
\* process runs, nothing uncaught was printed, nothing was written or handed
\* on as data, and the cycle has retried (or has used up its budget).
C13_RedirectBodyIgnored ==
    WellFormedRedirect =>
        /\ proc = "running"
        /\ \A i \in 1..Len(log) : log[i].level # "uncaught"
        /\ HasLine(log, "Redirect detected")
        /\ points = <<>>
        /\ GetsOf(log) # {} \/ TooManyLogged(log)

\* A 307 with a usable Location and a body that is not JSON has been handled,
\* and the process has died of the SyntaxError.
C13_Witness ==
    /\ WellFormedRedirect
    /\ lastResponse.body.kind = "garbage"
    /\ proc = "crashed"
    /\ HasLine(log, "SyntaxError")

\* C14: in the step that handles a 307 whose Location is
\* https://<host>:<port>[/...], the request the same cycle issues next goes to
\* that host and to that port (the digits after the colon), whatever the other
\* cycles in flight have done.
C14_RetryFollowsRedirect ==
    LET parts == ParseLocation(lastResponse.location.str)
        IsDigit(ch) == ch \in {"0", "1", "2", "3", "4", "5", "6", "7", "8", "9"}
        PortLen(s) == CHOOSE k \in 0..Len(s) :
                         /\ \A i \in 1..k : IsDigit(s[i])
                         /\ k = Len(s) \/ ~IsDigit(s[k + 1])
        PortOf(s) == SubSeq(s, 1, PortLen(s))
    IN  (WellFormedRedirect /\ PortOf(parts[2]) # <<>>) =>
            \A i \in GetsOf(log) :
               /\ log[i].host = Str(parts[1])
               /\ log[i].port = Str(PortOf(parts[2]))

\* The retry after a redirect to alt-host:444 with a path has been issued to
\* another port than 444 while a second cycle is in flight.
C14_Witness ==
    /\ lastResponse.statusCode = 307
    /\ lastResponse.location = Str(LocSomePath)
    /\ \E i \in GetsOf(log) : log[i].port # Str(<<"4", "4", "4">>)
    /\ \A c \in Cycles : pc[c] = "waiting"

\* C15: a step that handles a response with an empty body and a status other
\* than 307, 404 and 429 leaves the cache as it was, writes nothing and prints
\* nothing but the retry: the cycle that received it has its counter one
\* higher and its request re-issued, to the cached pair when the cache holds
\* one and to the defaults when it is unset, or the counter had reached 10 and
\* the call threw 'Redirected too many times'.
C15_EmptyBodyRetries ==
    [][(lastResponse'.statusCode \notin {0, 307, 404, 429}
        /\ lastResponse'.body.kind = "empty") =>
          /\ dynamicNestConfig' = dynamicNestConfig
          /\ proc' = "running"
          /\ points' = <<>>
          /\ Len(log') = 1
          /\ \E c \in Cycles :
                /\ pc[c] = "waiting"
                /\ OnlyCycle(c)
                /\ IF redirectCount[c] < MaxRedirects
                   THEN /\ pc'[c] = "waiting"
                        /\ redirectCount'[c] = redirectCount[c] + 1
                        /\ GetsOf(log') = {1}
                        /\ (Truthy(dynamicNestConfig.host) /\ Truthy(dynamicNestConfig.port)) =>
                              log' = <<Get(dynamicNestConfig.host, dynamicNestConfig.port)>>
                        /\ dynamicNestConfig = Unset =>
                              log' = <<Get(Str(DEFAULT_NEST_URL), Str(DEFAULT_NEST_PORT))>>
                   ELSE /\ pc'[c] = "idle"
                        /\ TooManyLogged(log')]_vars

\* A 200 with an empty body has been answered with a retry to the cached
\* n1:9553, its counter raised.
C15_Witness ==
    /\ lastResponse.statusCode = 200
    /\ lastResponse.body.kind = "empty"
    /\ log = <<Get(Str(<<"n", "1">>), Str(<<"9", "5", "5", "3">>))>>
    /\ \E c \in Cycles : pc[c] = "waiting" /\ redirectCount[c] > 1

\* C16: every request goes either to the cached host and the cached port,
\* both held by the cache, or to the default host and the default port.
C16_NoMixedPair ==
    \A i \in GetsOf(log) :
       \/ /\ Truthy(dynamicNestConfig.host)
          /\ Truthy(dynamicNestConfig.port)
          /\ log[i].host = dynamicNestConfig.host
          /\ log[i].port = dynamicNestConfig.port
       \/ /\ log[i].host = Str(DEFAULT_NEST_URL)
          /\ log[i].port = Str(DEFAULT_NEST_PORT)

\* A request has gone to the cached host n2 and the default port.
C16_Witness ==
    /\ proc = "running"
    /\ \E i \in GetsOf(log) :
          /\ log[i].host = Str(<<"n", "2">>)
          /\ log[i].port = Str(DEFAULT_NEST_PORT)

\* C17: unless the process exited at startup, a tick can fire whenever a cycle
\* slot is free, whatever the cycles in flight are doing and however earlier
\* cycles ended.
C17_TicksNeverHeldBack ==
    (proc # "exited" /\ \E c \in Cycles : pc[c] = "idle") =>
        ENABLED (\E c \in Cycles : Tick(c))

\* A tick has started a second cycle while the first, which has already
\* retried, is still in flight.
C17_Witness ==
    /\ proc = "running"
    /\ lastResponse = NoResponse
    /\ pc[1] = "waiting" /\ redirectCount[1] > 0
    /\ pc[2] = "waiting" /\ redirectCount[2] = 0
    /\ GetsOf(log) = {1}

C19_CounterPrivate ==
    [][/\ \E c \in Cycles : OnlyCycle(c)
       /\ \A c \in Cycles :
             /\ (pc[c] = "idle" /\ pc'[c] = "waiting") => redirectCount'[c] = 0
             /\ (pc[c] = "waiting" /\ pc'[c] = "waiting"
                 /\ redirectCount'[c] # redirectCount[c]) =>
                   /\ redirectCount'[c] = redirectCount[c] + 1
                   /\ lastResponse' # NoResponse]_vars

\* A cycle has started with counter 0 while the other is in flight with its
\* budget used up.
C19_Witness ==
    /\ lastResponse = NoResponse
    /\ \E c, d \in Cycles :
          /\ pc[c] = "waiting" /\ redirectCount[c] = MaxRedirects
          /\ pc[d] = "waiting" /\ redirectCount[d] = 0

====
